---------------------------- MODULE Spec2Model ----------------------------
(***************************************************************************)
(* A model of aiida.tools.groups.grouppaths: GroupPath, a delimiter-based  *)
(* tree view over the flat collection of labelled groups kept by the       *)
(* backing store (orm.Group.objects / orm.QueryBuilder).                   *)
(*                                                                         *)
(* Strings are sequences of one-character strings, so that split, join,    *)
(* startswith, endswith and the duplicate-delimiter test are computed the  *)
(* way Python computes them.  A GroupPath object is a record of its three  *)
(* fields that matter here: _path_string, _path_list and _type_string      *)
(* (_warn_invalid_child only switches a warning on or off).                *)
(***************************************************************************)
EXTENDS Naturals, Sequences, FiniteSets, TLC

---------------------------------------------------------------------------
(* Bounds of the model.                                                    *)

\* longest string handed to the constructor and to the append operations
MaxLen == 5
\* longest label of a stored group
MaxLabelLen == 3
\* most groups the backing store holds
MaxRecords == 2
\* deepest nesting of walk() generators that is followed
MaxDepth == 4

---------------------------------------------------------------------------
(* Strings.                                                                *)

delimiter == "/"

\* the characters strings are made of: one ordinary character and the delimiter
Chars == {"a", delimiter}

StringsUpTo(n) == UNION {[1..k -> Chars] : k \in 0..n}

startswith(s, c) == Len(s) > 0 /\ s[1] = c

endswith(s, c) == Len(s) > 0 /\ s[Len(s)] = c

\* delimiter * 2 in s
HasDoubleDelimiter(s) == \E i \in 1..(Len(s) - 1) : s[i] = delimiter /\ s[i + 1] = delimiter

\* s[:n] of Python: the first n elements, all of s when it has fewer
Prefix(s, n) == SubSeq(s, 1, IF n < Len(s) THEN n ELSE Len(s))

\* index of the first delimiter of s, 0 when it has none
FirstDelimiter(s) ==
    IF \E i \in 1..Len(s) : s[i] = delimiter
    THEN CHOOSE i \in 1..Len(s) : s[i] = delimiter /\ \A j \in 1..(i - 1) : s[j] # delimiter
    ELSE 0

RECURSIVE split(_)
\* s.split(delimiter): never empty, ''.split('/') is ['']
split(s) ==
    LET i == FirstDelimiter(s)
    IN  IF i = 0 THEN <<s>>
        ELSE <<SubSeq(s, 1, i - 1)>> \o split(SubSeq(s, i + 1, Len(s)))

RECURSIVE join(_)
\* delimiter.join(segs)
join(segs) ==
    IF Len(segs) = 0 THEN <<>>
    ELSE IF Len(segs) = 1 THEN segs[1]
    ELSE segs[1] \o <<delimiter>> \o join(Tail(segs))

---------------------------------------------------------------------------
(* GroupPath: construction, equality, parent, append.                      *)

\* type_string=None
None == "None"

\* None where an object is expected (parent, group)
NoObject == [none |-> TRUE]

USER == "user"

UPFGROUP_TYPE == "data.upf"

\* the type strings of stored groups
GroupTypeStrings == {USER, UPFGROUP_TYPE}

\* the type_string a GroupPath may be given
NodeTypeStrings == GroupTypeStrings \cup {None}

\* the outcome of an operation that raised InvalidPath
InvalidPath == [raised |-> "InvalidPath"]

\* the outcome of a call that returned the string s
Str(s) == [value |-> s]

validate_path_noend(path) ==
    IF path = <<delimiter>> THEN Str(<<>>)
    ELSE IF HasDoubleDelimiter(path) THEN InvalidPath
    ELSE IF startswith(path, delimiter) THEN InvalidPath
    ELSE Str(path)

validate_path(path) ==
    IF path = <<delimiter>> THEN Str(<<>>)
    ELSE IF HasDoubleDelimiter(path) THEN InvalidPath
    ELSE IF startswith(path, delimiter) \/ endswith(path, delimiter) THEN InvalidPath
    ELSE Str(path)

\* GroupPath(path, type_string): the object built, or InvalidPath
GroupPath(path, type_string) ==
    LET path_string == validate_path(path)
    IN  IF path_string = InvalidPath THEN InvalidPath
        ELSE [path |-> path_string.value,
              path_list |-> IF path # <<>> THEN split(path_string.value) ELSE <<>>,
              type_string |-> type_string]

\* self == other
Eq(self, other) == <<self.path, self.type_string>> = <<other.path, other.type_string>>

\* self.parent: None for a path with no segments
parent(self) ==
    IF self.path_list # <<>>
    THEN GroupPath(join(SubSeq(self.path_list, 1, Len(self.path_list) - 1)), self.type_string)
    ELSE NoObject

truediv_nodelim(self, path) ==
    LET p == validate_path(path)
    IN  IF p = InvalidPath THEN InvalidPath
        ELSE GroupPath(IF self.path # <<>> THEN self.path \o p.value ELSE p.value,
                       self.type_string)

\* self / path
truediv(self, path) ==
    LET p == validate_path(path)
    IN  IF p = InvalidPath THEN InvalidPath
        ELSE GroupPath(IF self.path # <<>> THEN self.path \o <<delimiter>> \o p.value
                                            ELSE p.value,
                       self.type_string)

\* self[path]
getitem(self, path) == truediv(self, path)

\* every GroupPath object the constructor builds from a string of at most n characters
NodesUpTo(n) ==
    {GroupPath(s, t) : s \in StringsUpTo(n), t \in NodeTypeStrings} \ {InvalidPath}

---------------------------------------------------------------------------
(* State.                                                                  *)

VARIABLES
    store,   \* the groups of the backing store: a set of [label, type_string]
    ret,     \* the last call made: [op, self, arg, val]
    stack,   \* the walk() generators in progress, outermost first
    out      \* what the outermost walk() has yielded so far

vars == <<store, ret, stack, out>>

NoCall == [op |-> "none", self |-> NoObject, arg |-> <<>>, val |-> NoObject]

Call(op, self, arg, val) == [op |-> op, self |-> self, arg |-> arg, val |-> val]

---------------------------------------------------------------------------
(* The path algebra: construction and the append operations, over every    *)
(* string of at most MaxLen characters.                                    *)

PathInit ==
    /\ store = {}
    /\ ret = NoCall
    /\ stack = <<>>
    /\ out = <<>>

\* the calls that return a GroupPath object, InvalidPath or None
PathOps == {"GroupPath", "truediv", "getitem", "parent"}

\* the last call returned a GroupPath object
HoldsPath == ret.op \in PathOps /\ ret.val # InvalidPath /\ ret.val # NoObject

\* v is an outcome whose path string, if it has one, is within the bound
InBound(v) == IF v = InvalidPath THEN TRUE ELSE Len(v.path) <= MaxLen

\* GroupPath(s, type_string=t)
New(s, t) ==
    /\ ret = NoCall
    /\ ret' = Call("GroupPath", [type_string |-> t], s, GroupPath(s, t))
    /\ UNCHANGED <<store, stack, out>>

\* ret.val / s, on the object the last call returned
TrueDiv(s) ==
    /\ HoldsPath
    /\ InBound(truediv(ret.val, s))
    /\ ret' = Call("truediv", ret.val, s, truediv(ret.val, s))
    /\ UNCHANGED <<store, stack, out>>

\* ret.val[s]
GetItem(s) ==
    /\ HoldsPath
    /\ InBound(getitem(ret.val, s))
    /\ ret' = Call("getitem", ret.val, s, getitem(ret.val, s))
    /\ UNCHANGED <<store, stack, out>>

\* ret.val.parent
Parent ==
    /\ HoldsPath
    /\ ret' = Call("parent", ret.val, <<>>, parent(ret.val))
    /\ UNCHANGED <<store, stack, out>>

PathNext ==
    \/ \E s \in StringsUpTo(MaxLen), t \in NodeTypeStrings : New(s, t)
    \/ \E s \in StringsUpTo(MaxLen) : TrueDiv(s)
    \/ \E s \in StringsUpTo(MaxLen) : GetItem(s)
    \/ Parent

PathSpec == PathInit /\ [][PathNext]_vars

---------------------------------------------------------------------------
(* The backing store.  orm.Group.objects and orm.QueryBuilder are not part *)
(* of these sources; they are modelled from the interface the              *)
(* specification gives them: a group is identified by its label and its    *)
(* type string, a label is a non-empty string, and a query returns the     *)
(* groups that agree with every given filter, in no particular order.      *)

Labels == StringsUpTo(MaxLabelLen) \ {<<>>}

Groups == [label : Labels, type_string : GroupTypeStrings]

RECURSIVE StoresUpTo(_)
\* every set of at most n groups
StoresUpTo(n) ==
    IF n = 0 THEN {{}}
    ELSE LET smaller == StoresUpTo(n - 1)
         IN  smaller \cup {st \cup {g} : st \in smaller, g \in Groups}

\* every content of the store within the bound
Stores == StoresUpTo(MaxRecords)

\* the rows of st that agree with every filter (filters maps field names to values)
Query(st, filters) == {g \in st : \A k \in DOMAIN filters : g[k] = filters[k]}

\* no filter at all: filters={}
NoFilter == <<>>

\* every order in which a query may return the rows S
Orderings(S) ==
    {o \in [1..Cardinality(S) -> S] : \A i, j \in 1..Cardinality(S) : o[i] = o[j] => i = j}

NotExistent == [raised |-> "NotExistent"]

MultipleObjectsError == [raised |-> "MultipleObjectsError"]

ValueError == [raised |-> "ValueError"]

\* orm.Group.objects.get(**filters)
objects_get(st, filters) ==
    LET res == Query(st, filters)
    IN  IF res = {} THEN NotExistent
        ELSE IF Cardinality(res) > 1 THEN MultipleObjectsError
        ELSE CHOOSE g \in res : TRUE

\* the pair (group, created) that get_or_create returns
Pair(g, created) == [group |-> g, created |-> created]

\* orm.Group.objects.get_or_create(label=..., [type_string=...]): the outcome
\* [val |-> (group, created) or what was raised, store |-> the store after]
objects_get_or_create(st, filters) ==
    LET res == Query(st, filters)
        new == [label |-> filters.label,
                type_string |-> IF "type_string" \in DOMAIN filters
                                THEN filters.type_string ELSE USER]
    IN  IF filters.label = <<>> THEN [val |-> ValueError, store |-> st]
        ELSE IF res = {} THEN [val |-> Pair(new, TRUE), store |-> st \cup {new}]
        ELSE IF Cardinality(res) > 1 THEN [val |-> MultipleObjectsError, store |-> st]
        ELSE [val |-> Pair(CHOOSE g \in res : TRUE, FALSE), store |-> st]

\* orm.Group.objects.delete(id)
objects_delete(st, g) == st \ {g}

---------------------------------------------------------------------------
(* GroupPath: the accessors of the concrete group, and children.           *)

\* self.group
group(self, st) ==
    LET got == IF self.type_string # None
               THEN objects_get(st, [label |-> self.path])
               ELSE objects_get(st, [label |-> self.path, type_string |-> self.type_string])
    IN  IF got = NotExistent THEN NoObject ELSE got

\* self.is_virtual
is_virtual(self, st) ==
    Cardinality(Query(st, IF self.type_string # None
                          THEN [label |-> self.path, type_string |-> self.type_string]
                          ELSE NoFilter)) = 0

get_or_create_group_untyped(self, st) ==
    objects_get_or_create(st, [label |-> self.path])

\* self.get_or_create_group()
get_or_create_group(self, st) ==
    IF self.type_string # None
    THEN objects_get_or_create(st, [label |-> self.path, type_string |-> self.type_string])
    ELSE objects_get_or_create(st, [label |-> self.path])

\* self.delete_group(): [val |-> None or what was raised, store |-> the store after]
delete_group(self, st) ==
    LET g == group(self, st)
    IN  IF g = MultipleObjectsError THEN [val |-> g, store |-> st]
        ELSE IF g # NoObject THEN [val |-> NoObject, store |-> objects_delete(st, g)]
        ELSE [val |-> NoObject, store |-> st]

\* the query of children: the labels of the groups of self's type, of all
\* groups when self has none, in the order rows gives them
children_query(self, st) ==
    Query(st, IF self.type_string # None THEN [type_string |-> self.type_string] ELSE NoFilter)

\* x in yielded
In(x, yielded) == \E i \in 1..Len(yielded) : yielded[i] = x

RECURSIVE children_loop_nodedup(_, _, _)
children_loop_nodedup(self, labels, yielded) ==
    IF labels = <<>> THEN <<>>
    ELSE
        LET path == split(Head(labels))
            n == Len(self.path_list)
            path_string == join(Prefix(path, n + 1))
            child == GroupPath(path_string, self.type_string)
        IN  IF Len(path) <= n THEN children_loop_nodedup(self, Tail(labels), yielded)
            ELSE IF Prefix(path, n) = self.path_list
            THEN (IF child = InvalidPath THEN <<>> ELSE <<child>>)
                 \o children_loop_nodedup(self, Tail(labels), Append(yielded, path_string))
            ELSE children_loop_nodedup(self, Tail(labels), yielded)

RECURSIVE children_loop(_, _, _)
\* the loop of children over the labels still to come, given what was yielded
children_loop(self, labels, yielded) ==
    IF labels = <<>> THEN <<>>
    ELSE
        LET path == split(Head(labels))
            n == Len(self.path_list)
            path_string == join(Prefix(path, n + 1))
            child == GroupPath(path_string, self.type_string)
        IN  IF Len(path) <= n THEN children_loop(self, Tail(labels), yielded)
            ELSE IF ~In(path_string, yielded) /\ Prefix(path, n) = self.path_list
            THEN (IF child = InvalidPath THEN <<>> ELSE <<child>>)
                 \o children_loop(self, Tail(labels), Append(yielded, path_string))
            ELSE children_loop(self, Tail(labels), yielded)

\* list(self.children), the query returning its rows in the order rows
children(self, rows) ==
    children_loop(self, [i \in 1..Len(rows) |-> rows[i].label], <<>>)

RECURSIVE walk_set(_, _, _)
\* the set of the nodes self.walk() yields on the store st, nested walks
\* followed depth levels deep (the set children yields does not depend on
\* the order of the rows)
walk_set(self, st, depth) ==
    IF depth = 0 THEN {}
    ELSE LET cs == children(self, CHOOSE o \in Orderings(children_query(self, st)) : TRUE)
         IN  {cs[i] : i \in 1..Len(cs)}
                 \cup UNION {walk_set(cs[i], st, depth - 1) : i \in 1..Len(cs)}

---------------------------------------------------------------------------
(* Queries on a store: a client builds any GroupPath whose path is no      *)
(* longer than a label and asks it for its children, its group or whether  *)
(* it is virtual.  A query leaves the store as it is and every content of  *)
(* the store is an initial state, so one query is followed per run.        *)

StoreNodes == NodesUpTo(MaxLabelLen)

\* no call has been made yet
Fresh == ret = NoCall

\* self is the object the client holds: any object before its first call
Held(self) == IF ret = NoCall THEN TRUE ELSE self = ret.self

QueryInit ==
    /\ store \in Stores
    /\ ret = NoCall
    /\ stack = <<>>
    /\ out = <<>>

\* list(self.children)
Children(self) ==
    /\ Fresh
    /\ \E rows \in Orderings(children_query(self, store)) :
           /\ ret' = Call("children", self, rows, children(self, rows))
           /\ UNCHANGED <<store, stack, out>>

\* self.is_virtual
IsVirtual(self) ==
    /\ Fresh
    /\ ret' = Call("is_virtual", self, <<>>, is_virtual(self, store))
    /\ UNCHANGED <<store, stack, out>>

\* self.group
Group(self) ==
    /\ Fresh
    /\ ret' = Call("group", self, <<>>, group(self, store))
    /\ UNCHANGED <<store, stack, out>>

QueryNext ==
    \/ \E self \in StoreNodes : Children(self)
    \/ \E self \in StoreNodes : IsVirtual(self)
    \/ \E self \in StoreNodes : Group(self)

QuerySpec == QueryInit /\ [][QueryNext]_vars

---------------------------------------------------------------------------
(* Changes to the store: a client builds a GroupPath and creates and       *)
(* deletes its group, any number of times, starting from any content of    *)
(* the store.                                                              *)

StoreInit ==
    /\ store \in Stores
    /\ ret = NoCall
    /\ stack = <<>>
    /\ out = <<>>

\* self.get_or_create_group(), while the store has room
GetOrCreateGroup(self) ==
    LET r == get_or_create_group(self, store)
    IN  /\ Held(self)
        /\ Cardinality(r.store) <= MaxRecords
        /\ ret' = Call("get_or_create_group", self, <<>>, r.val)
        /\ store' = r.store
        /\ UNCHANGED <<stack, out>>

\* self.delete_group()
DeleteGroup(self) ==
    LET r == delete_group(self, store)
    IN  /\ Held(self)
        /\ ret' = Call("delete_group", self, <<>>, r.val)
        /\ store' = r.store
        /\ UNCHANGED <<stack, out>>

StoreNext ==
    \/ \E self \in StoreNodes : GetOrCreateGroup(self)
    \/ \E self \in StoreNodes : DeleteGroup(self)

StoreSpec == StoreInit /\ [][StoreNext]_vars

---------------------------------------------------------------------------
(* walk(): the nested generators.  A frame is one running walk(): its node *)
(* and the children it has still to yield.  The store does not change      *)
(* while a walk runs: the query a generator makes on its first step is     *)
(* made when its frame is pushed, and every query of one walk returns the  *)
(* rows in the same order, the order the groups were created in, which is  *)
(* any order (ret.arg).  The walk starts at a node with the empty path;    *)
(* the walks of the other nodes are the nested ones.                       *)

\* the rows of order that the query of self's children returns
children_rows(self, order) ==
    SelectSeq(order, LAMBDA g : self.type_string # None => g.type_string = self.type_string)

Frame(self, order) == [node |-> self, todo |-> children(self, children_rows(self, order))]

RootNodes == {n \in StoreNodes : n.path = <<>>}

WalkInit ==
    /\ store \in Stores
    /\ ret = NoCall
    /\ stack = <<>>
    /\ out = <<>>

\* the walk has started and its outermost generator is exhausted
WalkDone == ret.op = "walk" /\ stack = <<>>

\* self.walk() is called and its first step taken: the children are queried
WalkStart(self) ==
    /\ Fresh
    /\ \E order \in Orderings(store) :
           /\ stack' = <<Frame(self, order)>>
           /\ ret' = Call("walk", self, order, NoObject)
           /\ UNCHANGED <<store, out>>

\* the innermost generator yields its next child without walking it
WalkYield_flat ==
    /\ stack # <<>>
    /\ stack[Len(stack)].todo # <<>>
    /\ Len(stack) < MaxDepth
    /\ LET top == stack[Len(stack)]
           child == Head(top.todo)
       IN  /\ out' = Append(out, child)
           /\ stack' = [stack EXCEPT ![Len(stack)].todo = Tail(top.todo)]
           /\ UNCHANGED <<store, ret>>

\* the innermost generator yields its next child, which every enclosing
\* generator passes on, and starts child.walk(); nesting deeper than MaxDepth
\* is not followed
WalkYield ==
    /\ stack # <<>>
    /\ stack[Len(stack)].todo # <<>>
    /\ Len(stack) < MaxDepth
    /\ LET top == stack[Len(stack)]
           child == Head(top.todo)
       IN  /\ out' = Append(out, child)
           /\ stack' = Append([stack EXCEPT ![Len(stack)].todo = Tail(top.todo)],
                              Frame(child, ret.arg))
           /\ UNCHANGED <<store, ret>>

\* the innermost generator is exhausted and returns to the one enclosing it
WalkReturn ==
    /\ stack # <<>>
    /\ stack[Len(stack)].todo = <<>>
    /\ stack' = SubSeq(stack, 1, Len(stack) - 1)
    /\ UNCHANGED <<store, ret, out>>

WalkNext ==
    \/ \E self \in RootNodes : WalkStart(self)
    \/ WalkYield
    \/ WalkReturn

WalkSpec == WalkInit /\ [][WalkNext]_vars

---------------------------------------------------------------------------
(* Claims about the path algebra (checked under PathSpec).                 *)

\* s starts with the delimiter, ends with it, or holds two in a row
Malformed(s) ==
    \/ (Len(s) > 0 /\ s[1] = delimiter)
    \/ (Len(s) > 0 /\ s[Len(s)] = delimiter)
    \/ \E i \in 1..(Len(s) - 1) : <<s[i], s[i + 1]>> = <<delimiter, delimiter>>

AppendOps == {"truediv", "getitem"}

\* C9: constructing a GroupPath from a string that starts with the delimiter,
\* ends with it or holds two consecutive delimiters raises InvalidPath (no
\* object is produced), except for the string that is exactly one delimiter,
\* which yields the root path; every other string is accepted as it is; and
\* the append operations / and [] reject the same arguments.
C9_InvalidPathRejected ==
    /\ ret.op = "GroupPath" =>
         /\ (Malformed(ret.arg) /\ ret.arg # <<delimiter>>) => ret.val = InvalidPath
         /\ ret.arg = <<delimiter>> =>
              /\ ret.val # InvalidPath
              /\ ret.val.path = <<>>
              /\ ret.val.type_string = ret.self.type_string
         /\ ~Malformed(ret.arg) =>
              /\ ret.val # InvalidPath
              /\ ret.val.path = ret.arg
              /\ ret.val.type_string = ret.self.type_string
    /\ ret.op \in AppendOps =>
         ((Malformed(ret.arg) /\ ret.arg # <<delimiter>>) => ret.val = InvalidPath)

\* C9 witness: [] with a malformed argument on a non-root path raised, and
\* the string was not the lone delimiter
C9_Witness ==
    /\ ret.op = "getitem"
    /\ ret.self.path = <<"a">>
    /\ ret.arg = <<"a", delimiter, delimiter, "a">>
    /\ ret.val = InvalidPath

RECURSIVE AppendEach(_, _)
\* self / segs[1] / segs[2] / ...
AppendEach(self, segs) ==
    IF segs = <<>> THEN self ELSE AppendEach(truediv(self, Head(segs)), Tail(segs))

\* C10: appending is a round trip with construction.  For a non-root path
\* head and a valid non-empty tail, head / tail and head[tail] equal
\* GroupPath(head + '/' + tail) and equal the result of appending the
\* segments of tail one at a time; appending a valid string to the root
\* yields the path constructed from that string.
C10_AppendRoundTrip ==
    (ret.op \in AppendOps /\ ~Malformed(ret.arg)) =>
        /\ (ret.self.path # <<>> /\ ret.arg # <<>>) =>
             /\ ret.val # InvalidPath
             /\ Eq(ret.val, GroupPath(ret.self.path \o <<delimiter>> \o ret.arg,
                                      ret.self.type_string))
             /\ Eq(ret.val, AppendEach(ret.self, split(ret.arg)))
        /\ ret.self.path = <<>> =>
             /\ ret.val # InvalidPath
             /\ Eq(ret.val, GroupPath(ret.arg, ret.self.type_string))
             /\ ret.arg # <<>> => Eq(ret.val, AppendEach(ret.self, split(ret.arg)))

\* C10 witness: GroupPath('a')['a/a'] returned the path 'a/a/a'
C10_Witness ==
    /\ ret.op = "getitem"
    /\ ret.self.path = <<"a">>
    /\ ret.arg = <<"a", delimiter, "a">>
    /\ ret.val # InvalidPath
    /\ ret.val.path = <<"a", delimiter, "a", delimiter, "a">>

---------------------------------------------------------------------------
(* Claims about the queries (checked under QuerySpec).                     *)

\* the groups a node is about: those of its type, all of them when it has none
OfType(self, st) == {g \in st : self.type_string # None => g.type_string = self.type_string}

\* the groups that are the concrete record of the node
ExactRecords(self, st) == {g \in OfType(self, st) : g.label = self.path}

\* segs starts with the segments pre
IsSegmentPrefix(pre, segs) ==
    Len(pre) <= Len(segs) /\ \A i \in 1..Len(pre) : segs[i] = pre[i]

\* the strings formed by the first len(segments)+1 segments of the labels, of
\* self's type, that extend self's segments by at least one segment
ChildStrings(self, st) ==
    {join(SubSeq(split(g.label), 1, Len(self.path_list) + 1)) :
        g \in {h \in OfType(self, st) :
                 /\ Len(split(h.label)) > Len(self.path_list)
                 /\ IsSegmentPrefix(self.path_list, split(h.label))}}

\* the path strings of a sequence of GroupPath objects
PathsOf(seq) == {seq[i].path : i \in 1..Len(seq)}

NoDuplicates(seq) == \A i, j \in 1..Len(seq) : seq[i] = seq[j] => i = j

\* C1 as stated: children yields exactly the distinct paths formed by the
\* first len(segments)+1 segments of the matching labels that extend the
\* node, each exactly once, and never a stored label equal to the node's own
\* path.
C1_ChildrenAllPrefixes ==
    ret.op = "children" =>
        /\ {ret.val[i] : i \in 1..Len(ret.val)} =
              {GroupPath(c, ret.self.type_string) : c \in ChildStrings(ret.self, store)}
        /\ Len(ret.val) = Cardinality(ChildStrings(ret.self, store))
        /\ \A g \in ExactRecords(ret.self, store) : g.label \notin PathsOf(ret.val)

\* C1 as amended: children yields exactly one GroupPath, of the node's type,
\* for each of those distinct strings that is a valid path, built from that
\* string; the strings that fail validation are skipped; a stored label equal
\* to the node's own path is never yielded.
C1_ChildrenValidPrefixes ==
    ret.op = "children" =>
        /\ {ret.val[i] : i \in 1..Len(ret.val)} =
              {GroupPath(c, ret.self.type_string) :
                  c \in {d \in ChildStrings(ret.self, store) : ~Malformed(d) \/ d = <<delimiter>>}}
        /\ Len(ret.val) =
              Cardinality({d \in ChildStrings(ret.self, store) : ~Malformed(d) \/ d = <<delimiter>>})
        /\ NoDuplicates(ret.val)
        /\ \A g \in ExactRecords(ret.self, store) : g.label \notin PathsOf(ret.val)

\* C1 witness: children of 'a' (type user) over the groups 'a/a' and 'a//' of
\* its type: one child, 'a/a'; the candidate 'a/' cut from 'a//' is no valid
\* path and is skipped
C1_Witness ==
    /\ ret.op = "children"
    /\ ret.self = GroupPath(<<"a">>, USER)
    /\ store = {[label |-> <<"a", delimiter, "a">>, type_string |-> USER],
                [label |-> <<"a", delimiter, delimiter>>, type_string |-> USER]}
    /\ ret.val = <<GroupPath(<<"a", delimiter, "a">>, USER)>>

\* C3: is_virtual is true exactly when the store holds no group whose label
\* is the node's path (and whose type is the node's, when it has one).
C3_VirtualIffNoRecord ==
    ret.op = "is_virtual" => (ret.val <=> ExactRecords(ret.self, store) = {})

\* C6: group returns a group only if its label is the node's path and, when
\* the node has a type, its type is the node's; when no such group is stored
\* it returns None and raises nothing.
C6_GroupExactOrNone ==
    ret.op = "group" =>
        /\ ExactRecords(ret.self, store) = {} => ret.val = NoObject
        /\ ret.val \in store => ret.val \in ExactRecords(ret.self, store)

---------------------------------------------------------------------------
(* Claims about walk() (checked under WalkSpec).                           *)

\* the non-empty segment prefixes of the labels of the groups of self's type
LabelPrefixes(self, st) ==
    UNION {{join(SubSeq(split(g.label), 1, k)) : k \in 1..Len(split(g.label))} :
              g \in OfType(self, st)}

\* C2: when every stored label of the root's type is a valid path, a
\* finished root.walk() has yielded every distinct non-empty segment prefix
\* of those labels (the labels themselves included), each exactly once, as a
\* GroupPath of the root's type, and nothing else, in whichever order the
\* groups were created; groups of another type contribute nothing.
C2_WalkYieldsEveryPrefixOnce ==
    (/\ WalkDone
     /\ ret.self.path_list = <<>>
     /\ \A g \in OfType(ret.self, store) : ~Malformed(g.label)) =>
        /\ {out[i] : i \in 1..Len(out)} =
              {GroupPath(q, ret.self.type_string) : q \in LabelPrefixes(ret.self, store)}
        /\ Len(out) = Cardinality(LabelPrefixes(ret.self, store))

\* C2 witness: the walk of the root of type user over 'a/a' (user) and 'aa'
\* (data.upf) has finished, having yielded 'a' and 'a/a'
C2_Witness ==
    /\ WalkDone
    /\ ret.self = GroupPath(<<>>, USER)
    /\ store = {[label |-> <<"a", delimiter, "a">>, type_string |-> USER],
                [label |-> <<"a", "a">>, type_string |-> UPFGROUP_TYPE]}
    /\ out = <<GroupPath(<<"a">>, USER), GroupPath(<<"a", delimiter, "a">>, USER)>>

\* the most segments a stored label has
MaxSegments(st) ==
    IF st = {} THEN 0
    ELSE CHOOSE m \in {Len(split(g.label)) : g \in st} :
            \A g \in st : Len(split(g.label)) <= m

\* C8: at every point of a walk, every node a generator yields has strictly
\* more segments than the node whose children produced it, no node is
\* yielded twice, and the nesting of the generators is bounded by the
\* longest label; so the walk ends after finitely many yields whatever
\* label strings are stored.
C8_WalkStrictlyDescends ==
    /\ \A i \in 1..Len(stack) : \A k \in 1..Len(stack[i].todo) :
           Len(stack[i].todo[k].path_list) > Len(stack[i].node.path_list)
    /\ \A i \in 1..(Len(stack) - 1) :
           Len(stack[i + 1].node.path_list) > Len(stack[i].node.path_list)
    /\ NoDuplicates(out)
    /\ Len(stack) <= MaxSegments(store) + 1

---------------------------------------------------------------------------
(* Claims about the changes to the store (checked under StoreSpec).        *)

RECURSIVE Ancestors(_)
\* the parent of self, its parent, and so on
Ancestors(self) ==
    IF parent(self) = NoObject THEN {}
    ELSE {parent(self)} \cup Ancestors(parent(self))

\* C4: delete_group on a node that has no concrete group (no group with its
\* label and its type) leaves the store as it was and raises nothing; a group
\* with the same label and another type is not deleted.
C4_DeleteWithoutRecordIsNoOp ==
    [][(ret'.op = "delete_group" /\ ExactRecords(ret'.self, store) = {}) =>
          (store' = store /\ ret'.val = NoObject)]_vars

\* C5: after delete_group on a node that was concrete the node is virtual,
\* every other group is left as it was, and a walk from any ancestor yields
\* the node's path exactly when a remaining label of its type still has it as
\* a proper segment prefix.
C5_DeleteMakesVirtual ==
    [][(ret'.op = "delete_group" /\ ExactRecords(ret'.self, store) # {}) =>
          /\ is_virtual(ret'.self, store')
          /\ store' = store \ ExactRecords(ret'.self, store)
          /\ \A anc \in Ancestors(ret'.self) :
                (ret'.self.path \in {n.path : n \in walk_set(anc, store', MaxDepth)})
                <=> (\E g \in OfType(ret'.self, store') :
                        /\ Len(split(g.label)) > Len(ret'.self.path_list)
                        /\ IsSegmentPrefix(ret'.self.path_list, split(g.label)))]_vars

Raised == {ValueError, MultipleObjectsError}

\* what C7 says of a call of get_or_create_group on self that took the store
\* from before to after and gave val
CreatedExactlyWhenAbsent(self, before, after, val) ==
    IF val \in Raised THEN FALSE
    ELSE /\ val.created <=> (ExactRecords(self, before) = {})
         /\ Cardinality(ExactRecords(self, after)) = 1
         /\ ~is_virtual(self, after)
         /\ LET again == get_or_create_group(self, after)
            IN  IF again.val \in Raised THEN FALSE
                ELSE ~again.val.created /\ again.store = after

Refused(self, st) ==
    \/ self.path = <<>>
    \/ (self.type_string = None /\ Cardinality(ExactRecords(self, st)) > 1)

---------------------------------------------------------------------------
(* GroupAttr: attribute access to the children of a GroupPath.  The names  *)
(* looked up need a digit and the characters of 'get_child', so its labels *)
(* are drawn from a wider alphabet; a client browses any GroupPath of at   *)
(* most MaxAttrPathLen characters and follows attributes from there.       *)

\* longest path string of the GroupPath a client browses
MaxAttrPathLen == 1
\* longest attribute name looked up, 'get_child' apart
MaxAttrLen == 2

get_child == <<"g", "e", "t", "_", "c", "h", "i", "l", "d">>

\* [a-zA-Z]
Letters == {"a", "c", "d", "e", "g", "h", "i", "l", "t"}

\* [0-9]
Digits == {"1"}

\* REGEX_ATTR.match(s): ^[a-zA-Z][\_a-zA-Z0-9]*$
REGEX_ATTR(s) ==
    /\ Len(s) > 0
    /\ s[1] \in Letters
    /\ \A i \in 2..Len(s) : s[i] \in Letters \cup Digits \cup {"_"}

\* the characters of the labels browsed: a letter, a digit and the delimiter
AttrChars == {"a", "1", delimiter}

AttrStringsUpTo(n) == UNION {[1..k -> AttrChars] : k \in 0..n}

AttrLabels == (AttrStringsUpTo(MaxLabelLen) \ {<<>>}) \cup {get_child}

AttrGroups == [label : AttrLabels, type_string : GroupTypeStrings]

RECURSIVE AttrStoresUpTo(_)
\* every set of at most n of these groups
AttrStoresUpTo(n) ==
    IF n = 0 THEN {{}}
    ELSE LET smaller == AttrStoresUpTo(n - 1)
         IN  smaller \cup {st \cup {g} : st \in smaller, g \in AttrGroups}

AttrStores == AttrStoresUpTo(MaxRecords)

\* the GroupPath objects a client browses
AttrNodes ==
    {GroupPath(s, t) : s \in AttrStringsUpTo(MaxAttrPathLen), t \in NodeTypeStrings}
        \ {InvalidPath}

\* the names a client looks up
AttrNames ==
    {n \in AttrStringsUpTo(MaxAttrLen) : \A i \in 1..Len(n) : n[i] # delimiter}
        \cup {get_child}

IndexError == [raised |-> "IndexError"]

AttributeError == [raised |-> "AttributeError"]

RecursionError == [raised |-> "RecursionError"]

\* v is a GroupAttr object
IsAttr(v) == "attr_to_child" \in DOMAIN v

\* the dict comprehension of GroupAttr.__init__ over the children cs: the
\* last of the children of one key is the one kept
attr_to_child(cs) ==
    LET kept == {i \in 1..Len(cs) : REGEX_ATTR(cs[i].path_list[Len(cs[i].path_list)])}
        keys == {cs[i].path_list[Len(cs[i].path_list)] : i \in kept}
    IN  [k \in keys |->
            cs[CHOOSE i \in kept :
                   /\ cs[i].path_list[Len(cs[i].path_list)] = k
                   /\ \A j \in kept : cs[j].path_list[Len(cs[j].path_list)] = k => j <= i]]

\* GroupAttr(group_path), the query of the children returning the rows in
\* the order rows: path_list[-1] of a child without segments is an IndexError
GroupAttr(group_path, rows) ==
    LET cs == children(group_path, rows)
    IN  IF \E i \in 1..Len(cs) : cs[i].path_list = <<>> THEN IndexError
        ELSE [group_path |-> group_path, attr_to_child |-> attr_to_child(cs)]

\* self(): the GroupPath
call(self) == self.group_path

\* self.__dir__(): the keys
dir(self) == DOMAIN self.attr_to_child

\* self.__getattr__(attr); no attribute get_child is defined anywhere, so
\* self.get_child enters __getattr__ again until the recursion limit
getattr(self, attr, rows) ==
    IF attr = get_child THEN RecursionError
    ELSE IF attr \notin DOMAIN self.attr_to_child THEN AttributeError
    ELSE GroupAttr(self.attr_to_child[attr], rows)

AttrInit ==
    /\ store \in AttrStores
    /\ ret = NoCall
    /\ stack = <<>>
    /\ out = <<>>

\* the last call returned a GroupAttr object
HoldsAttr == ret.op \in {"browse", "getattr"} /\ IsAttr(ret.val)

\* self.browse
Browse(self) ==
    /\ Fresh
    /\ \E order \in Orderings(store) :
           /\ ret' = Call("browse", self, <<>>, GroupAttr(self, children_rows(self, order)))
           /\ UNCHANGED <<store, stack, out>>

\* getattr(ret.val, attr), on the GroupAttr the last call returned
GetAttr(attr) ==
    /\ HoldsAttr
    /\ \E order \in Orderings(store) :
           /\ ret' = Call("getattr", ret.val, attr,
                          getattr(ret.val, attr,
                                  IF attr \in DOMAIN ret.val.attr_to_child
                                  THEN children_rows(ret.val.attr_to_child[attr], order)
                                  ELSE <<>>))
           /\ UNCHANGED <<store, stack, out>>

\* dir(ret.val)
Dir ==
    /\ HoldsAttr
    /\ ret' = Call("dir", ret.val, <<>>, dir(ret.val))
    /\ UNCHANGED <<store, stack, out>>

\* ret.val()
CallAttr ==
    /\ HoldsAttr
    /\ ret' = Call("call", ret.val, <<>>, call(ret.val))
    /\ UNCHANGED <<store, stack, out>>

AttrNext ==
    \/ \E self \in AttrNodes : Browse(self)
    \/ \E attr \in AttrNames : GetAttr(attr)
    \/ Dir
    \/ CallAttr

AttrSpec == AttrInit /\ [][AttrNext]_vars

---------------------------------------------------------------------------
(* Claims about GroupAttr (checked under AttrSpec).                        *)

\* the last segments of the children of self that are attribute names
ChildNames(self, st) ==
    LET cs == children(self, CHOOSE o \in Orderings(children_query(self, st)) : TRUE)
    IN  {cs[i].path_list[Len(cs[i].path_list)] :
            i \in {j \in 1..Len(cs) : cs[j].path_list # <<>>
                                      /\ REGEX_ATTR(cs[j].path_list[Len(cs[j].path_list)])}}

\* C11: a GroupAttr over the node P resolves exactly the names that are the
\* last segment of a child of P and match ^[A-Za-z][A-Za-z0-9_]*$: looking
\* such a name up returns a GroupAttr of that child, __dir__ lists exactly
\* those names, and looking any other name up raises AttributeError.
C11_AttrResolvesChildNames ==
    /\ ret.op = "getattr" =>
          LET P == ret.self.group_path
          IN  IF ret.arg \in ChildNames(P, store)
              THEN /\ IsAttr(ret.val)
                   /\ ret.val.group_path = truediv(P, ret.arg)
              ELSE ret.val = AttributeError
    /\ ret.op = "dir" => ret.val = ChildNames(ret.self.group_path, store)

---------------------------------------------------------------------------
(* Claims about the fields of a GroupPath (checked under PathSpec).        *)

\* the path of v is well formed and its path_list is the split of its path,
\* the empty list for the empty path
WellFormed(v) ==
    /\ ~Malformed(v.path)
    /\ v.path_list = IF v.path # <<>> THEN split(v.path) ELSE <<>>

\* the children of v and of w are the same on every store, in every order
\* of the rows
SameChildren(v, w) ==
    \A st \in Stores : \A rows \in Orderings(children_query(v, st)) :
        children(v, rows) = children(w, rows)

\* C12: every GroupPath obtained by construction, by / or [], or by parent
\* has a path that neither starts nor ends with the delimiter nor holds two
\* in a row, and a path_list that is path.split(delimiter) for a non-empty
\* path and [] for the empty one; the object built from '/' has the path ''
\* and the path_list [], and the same parent and children as GroupPath('').
C12_PathInvariants ==
    /\ HoldsPath => WellFormed(ret.val)
    /\ (ret.op = "GroupPath" /\ ret.arg = <<delimiter>>) =>
          LET root == GroupPath(<<>>, ret.self.type_string)
          IN  /\ ret.val.path = <<>>
              /\ ret.val.path_list = <<>>
              /\ parent(ret.val) = parent(root)
              /\ SameChildren(ret.val, root)

---------------------------------------------------------------------------
(* Claims about parent and children (checked under QuerySpec).             *)

\* index of the last delimiter of s, 0 when it has none
LastDelimiter(s) ==
    IF \E i \in 1..Len(s) : s[i] = delimiter
    THEN CHOOSE i \in 1..Len(s) : s[i] = delimiter /\ \A j \in (i + 1)..Len(s) : s[j] # delimiter
    ELSE 0

\* the path string s without its last segment
DropLastSegment(s) == SubSeq(s, 1, LastDelimiter(s) - 1)

\* v is a GroupPath object, and equal to w
IsPathEqualTo(v, w) == v # NoObject /\ v # InvalidPath /\ Eq(v, w)

\* C13: the parent of the root is None and the parent of any other node is
\* the node of the same type whose path drops the last segment; every child
\* that P.children yields, on any store, has P as its parent and exactly one
\* segment more than P.
C13_ParentInverseOfChildren ==
    ret.op = "children" =>
        LET P == ret.self
        IN  /\ IF P.path = <<>> THEN parent(P) = NoObject
               ELSE IsPathEqualTo(parent(P), GroupPath(DropLastSegment(P.path), P.type_string))
            /\ \A i \in 1..Len(ret.val) :
                  /\ IsPathEqualTo(parent(ret.val[i]), P)
                  /\ Len(ret.val[i].path_list) = Len(P.path_list) + 1

=============================================================================
